---- MODULE Spec2Model ----
(***************************************************************************)
(* Crime / poverty data pipeline: the fetch-one retry loops, the tolerant   *)
(* JSON shape handling, the thread-pool fan-out and the join of main, as    *)
(* written in src/get_data.py and src/get_data_by_county.py.                *)
(*                                                                          *)
(* Strings are sequences of fragments ("01-2023" is <<"01","-","2023">>,    *)
(* "Alabama Clearances" is <<"Alabama"," ","Clearance","s">>), so that      *)
(* startswith / endswith / in / strip / lower are computed, not tabulated.  *)
(* JSON values are tagged records; a JSON object is an ordered sequence of  *)
(* key/value items with distinct keys (Python dicts keep insertion order).  *)
(* Floats are counted in halves (h = 3 is 1.5).  Python dicts returned by   *)
(* the program are TLA+ functions whose DOMAIN is the set of keys present.  *)
(***************************************************************************)
EXTENDS Integers, Sequences, FiniteSets, TLC

\* ------------------------------------------------------------------------
\* Bounds of the model
\* ------------------------------------------------------------------------
MaxRetries == 3
MaxJobs == 4
MaxSeries == 2
MaxMonths == 2
MaxRecords == 2
MaxEntities == 2
MaxAcsRows == 2
MaxCrimeRows == 2
MaxCombined == 4
MaxAgencies == 2
\* ThreadPoolExecutor(max_workers=12) in the source; the pool of the model is
\* scaled down so that the job list is longer than the pool
max_workers == 2

\* ------------------------------------------------------------------------
\* Program constants
\* ------------------------------------------------------------------------
\* backoff=0.8 seconds, counted in tenths of a second
backoff == 8
\* retries=3, the default every fan-out uses
retries_default == 3
\* time.sleep(backoff * (2 ** attempt))
RECURSIVE Pow2(_)
Pow2(n) == IF n = 0 THEN 1 ELSE 2 * Pow2(n - 1)
\* a faulty variant: the same pause after every failure
SleepForConstant(a) == backoff

SleepFor(a) == backoff * Pow2(a)
\* TARGET_YEAR_SUFFIX = "-2023"
TARGET_YEAR_SUFFIX == <<"-", "2023">>
\* target_year = int(YEAR_FROM.split("-")[1])
target_year == 2023
\* str(target_year), as the f-strings format it
target_year_str == "2023"
OFFENSES == <<"V", "P">>

\* ------------------------------------------------------------------------
\* Strings
\* ------------------------------------------------------------------------
StartsWith(s, p) == Len(s) >= Len(p) /\ SubSeq(s, 1, Len(p)) = p

EndsWith(s, p) == Len(s) >= Len(p) /\ SubSeq(s, Len(s) - Len(p) + 1, Len(s)) = p

Contains(s, p) == \E i \in 0..(Len(s) - Len(p)) : SubSeq(s, i + 1, i + Len(p)) = p

RECURSIVE LStrip(_)
LStrip(s) == IF s # <<>> /\ Head(s) = " " THEN LStrip(Tail(s)) ELSE s

RECURSIVE RStrip(_)
RStrip(s) ==
    IF s # <<>> /\ s[Len(s)] = " " THEN RStrip(SubSeq(s, 1, Len(s) - 1)) ELSE s

Strip(s) == RStrip(LStrip(s))

LowerFrag(w) ==
    CASE w = "Clearance" -> "clearance"
      [] w = "CLEARANCE" -> "clearance"
      [] w = "Alabama" -> "alabama"
      [] w = "United" -> "united"
      [] w = "States" -> "states"
      [] w = "California" -> "california"
      [] w = "Violent" -> "violent"
      [] w = "Property" -> "property"
      [] w = "Crime" -> "crime"
      [] w = "Other" -> "other"
      [] w = "AL" -> "al"
      [] w = "CA" -> "ca"
      [] w = "ORI" -> "ori"
      [] OTHER -> w

Lower(s) == [i \in 1..Len(s) |-> LowerFrag(s[i])]

UpperFrag(w) ==
    CASE w = "Lee" -> "LEE"
      [] w = "lee" -> "LEE"
      [] w = "bath" -> "BATH"
      [] w = "Bath" -> "BATH"
      [] w = "County" -> "COUNTY"
      [] OTHER -> w

Upper(s) == [i \in 1..Len(s) |-> UpperFrag(s[i])]

\* ------------------------------------------------------------------------
\* JSON values
\* ------------------------------------------------------------------------
JNone == [t |-> "none"]
JBool(b) == [t |-> "bool", b |-> b]
JInt(n) == [t |-> "int", n |-> n]
JFloat(h) == [t |-> "float", h |-> h]
JStr(s) == [t |-> "str", s |-> s]
JList(xs) == [t |-> "list", xs |-> xs]
JDict(items) == [t |-> "dict", items |-> items]
Item(k, v) == [k |-> k, v |-> v]

\* Python truthiness of a decoded JSON value
Truthy(v) ==
    CASE v.t = "none" -> FALSE
      [] v.t = "bool" -> v.b
      [] v.t = "int" -> v.n # 0
      [] v.t = "float" -> v.h # 0
      [] v.t = "str" -> v.s # <<>>
      [] v.t = "list" -> v.xs # <<>>
      [] v.t = "dict" -> v.items # <<>>

Keys(d) == [i \in 1..Len(d.items) |-> d.items[i].k]

HasKey(d, k) == \E i \in 1..Len(d.items) : d.items[i].k = k

\* dict.get(k, default)
Get(d, k, default) ==
    IF HasKey(d, k)
    THEN d.items[CHOOSE i \in 1..Len(d.items) : d.items[i].k = k].v
    ELSE default

\* x or y
Or(x, y) == IF Truthy(x) THEN x ELSE y

\* the decimal numerals the payloads use, in halves: int(float("1.5")) is 1
NumeralHalves(w) ==
    CASE w = "0" -> 0
      [] w = "1" -> 2
      [] w = "2" -> 4
      [] w = "3" -> 6
      [] w = "1.5" -> 3
      [] w = "50" -> 100
      [] w = "100" -> 200
      [] w = "500000" -> 1000000
      [] w = "2023" -> 4046
      [] w = "2024" -> 4048
      [] OTHER -> -1

\* ------------------------------------------------------------------------
\* Outcomes of a call: a returned dict, or an exception that escapes it
\* ------------------------------------------------------------------------
Return(d) == [kind |-> "return", value |-> d]
Raise(e) == [kind |-> "raise", exc |-> e]

\* ------------------------------------------------------------------------
\* src/get_data.py: fbi_crime_fetch_one, what it does with a decoded response
\* ------------------------------------------------------------------------
\* isinstance(v, (int, float)); bool is a subclass of int
IsNumber(v) == v.t \in {"bool", "int", "float"}

\* a number in halves
Halves(v) ==
    CASE v.t = "bool" -> (IF v.b THEN 2 ELSE 0)
      [] v.t = "int" -> 2 * v.n
      [] v.t = "float" -> v.h

\* int(x) of a number given in halves: truncation toward zero
IntOfHalves(h) == IF h >= 0 THEN h \div 2 ELSE -((-h) \div 2)

\* a faulty variant: the last matching entry replaces the total (= for +=)
RECURSIVE SumSuffixLastWins(_)
SumSuffixLastWins(items) ==
    IF items = <<>> THEN 0
    ELSE IF IsNumber(items[Len(items)].v) /\ EndsWith(items[Len(items)].k, TARGET_YEAR_SUFFIX)
    THEN Halves(items[Len(items)].v)
    ELSE SumSuffixLastWins(SubSeq(items, 1, Len(items) - 1))

\* sum(v for m, v in months.items()
\*     if isinstance(v, (int, float)) and m.endswith(TARGET_YEAR_SUFFIX)), in halves
RECURSIVE SumSuffix(_)
SumSuffix(items) ==
    IF items = <<>> THEN 0
    ELSE (IF IsNumber(Head(items).v) /\ EndsWith(Head(items).k, TARGET_YEAR_SUFFIX)
          THEN Halves(Head(items).v) ELSE 0) + SumSuffix(Tail(items))

KeepsStateKey(k) ==
    /\ ~Contains(k, <<"United", " ", "States">>)
    /\ ~Contains(k, <<"Clearance", "s">>)

\* state_keys = [k for k in actuals.keys() if ... not in k]
StateKeys(actuals) == SelectSeq(Keys(actuals), KeepsStateKey)

\* a faulty variant: the error row keeps a numeric total
CrimeErrorRowWithZero(state, offense, msg) ==
    [state_abbr |-> JStr(state), state_name |-> JNone, offense |-> JStr(offense),
     total_2023 |-> JInt(0), error |-> JStr(<<msg>>)]

CrimeErrorRow(state, offense, msg) ==
    [state_abbr |-> JStr(state), state_name |-> JNone, offense |-> JStr(offense),
     total_2023 |-> JNone, error |-> JStr(<<msg>>)]

\* a faulty variant: the entity is named by the requested abbreviation
CrimeRowNamedByRequest(state, state_name, offense, total) ==
    [state_abbr |-> JStr(state), state_name |-> JStr(state),
     offense |-> JStr(offense), total_2023 |-> JInt(total)]

CrimeRow(state, state_name, offense, total) ==
    [state_abbr |-> JStr(state), state_name |-> JStr(state_name),
     offense |-> JStr(offense), total_2023 |-> JInt(total)]

fbi_crime_parse(state, offense, data) ==
    IF data.t # "dict" THEN Raise("AttributeError")
    ELSE LET offenses == Or(Get(data, <<"offenses">>, JNone), JDict(<<>>)) IN
    IF offenses.t # "dict" THEN Raise("AttributeError")
    ELSE LET actuals == Or(Get(offenses, <<"actuals">>, JNone), JDict(<<>>)) IN
    IF actuals.t # "dict" THEN Raise("AttributeError")
    ELSE LET state_keys == StateKeys(actuals) IN
    IF state_keys = <<>>
    THEN Return(CrimeErrorRow(state, offense, "No state key found"))
    ELSE LET state_name == state_keys[1]
             months == Or(Get(actuals, state_name, JDict(<<>>)), JDict(<<>>)) IN
    IF months.t # "dict" THEN Raise("AttributeError")
    ELSE Return(CrimeRow(state, state_name, offense, IntOfHalves(SumSuffix(months.items))))

\* ------------------------------------------------------------------------
\* src/get_data_by_county.py: agency_crime_fetch_one
\* ------------------------------------------------------------------------
\* _to_int: JInt(n), or JNone
to_int(x) ==
    CASE x.t \in {"bool", "int"} -> JInt(IntOfHalves(Halves(x)))
      [] x.t = "float" -> JInt(IntOfHalves(x.h))
      [] x.t = "str" ->
            LET s == Strip(x.s) IN
            IF Len(s) = 1 /\ NumeralHalves(s[1]) >= 0
            THEN JInt(NumeralHalves(s[1]) \div 2) ELSE JNone
      [] OTHER -> JNone

\* _key_has_year; JSON object keys are always strings
key_has_year(k, year) ==
    LET s == Strip(k) IN EndsWith(s, <<"-", year>>) \/ StartsWith(s, <<year, "-">>)

\* the loop of lines 218-223
RECURSIVE SumMonthMap(_)
SumMonthMap(items) ==
    IF items = <<>> THEN 0
    ELSE LET val == to_int(Head(items).v) IN
         (IF key_has_year(Head(items).k, target_year_str) /\ val.t # "none"
          THEN val.n ELSE 0) + SumMonthMap(Tail(items))

NotClearance(k) == ~Contains(Lower(k), <<"clearance">>)

\* a faulty variant: the first key, whatever it names
AgencyKeyFirst(ori, actuals) == Keys(actuals)[1]

\* lines 199-213: the key of the series that is summed
AgencyKey(ori, actuals) ==
    LET keys == Keys(actuals)
        non_clearance_keys == SelectSeq(keys, NotClearance) IN
    IF HasKey(actuals, ori) THEN ori
    ELSE IF non_clearance_keys # <<>> THEN non_clearance_keys[1]
    ELSE keys[1]

\* lines 237-243: the value of one legacy record
FirstCount(item, names) ==
    LET present == SelectSeq(names, LAMBDA k : Get(item, <<k>>, JNone).t # "none") IN
    IF present = <<>> THEN JNone ELSE Get(item, <<present[1]>>, JNone)

LegacyVal(item) ==
    LET val == Get(item, <<"actual">>, JNone) IN
    to_int(IF val.t = "none"
           THEN FirstCount(item, <<"offense_count", "count", "value">>) ELSE val)

\* re.search(r"\d{4}", yr): the first run of four digits
YearFrags(s) == SelectSeq(s, LAMBDA w : w \in {"2023", "2024"})

\* lines 248-252
LegacyYr(item) ==
    LET yr == Get(item, <<"data_year">>, Get(item, <<"year">>, JNone)) IN
    IF yr.t = "str"
    THEN (IF YearFrags(yr.s) = <<>> THEN JNone
          ELSE JInt(NumeralHalves(YearFrags(yr.s)[1]) \div 2))
    ELSE yr

\* lines 254-259
LegacyInTarget(item) ==
    LET yr == LegacyYr(item)
        mo == Or(Or(Get(item, <<"month">>, JNone), Get(item, <<"date">>, JNone)),
                 Get(item, <<"data_month">>, JNone)) IN
    \/ (yr.t = "int" /\ yr.n = target_year)
    \/ /\ mo.t = "str"
       /\ \/ StartsWith(Strip(mo.s), <<target_year_str, "-">>)
          \/ EndsWith(Strip(mo.s), <<"-", target_year_str>>)

\* the loop of lines 231-262
RECURSIVE SumLegacy(_)
SumLegacy(results) ==
    IF results = <<>> THEN 0
    ELSE LET item == Head(results) IN
         (IF item.t = "dict" /\ LegacyVal(item).t # "none" /\ LegacyInTarget(item)
          THEN LegacyVal(item).n ELSE 0) + SumLegacy(Tail(results))

AgencyErrorRow(ori, offense, msg) ==
    [ori |-> JStr(ori), offense |-> JStr(offense), total_2023 |-> JNone,
     error |-> JStr(<<msg>>)]

AgencyRow(ori, offense, total) ==
    [ori |-> JStr(ori), offense |-> JStr(offense), total_2023 |-> JInt(total)]

\* lines 226-264, reached when the new shape did not return
agency_legacy_parse(ori, offense, data) ==
    IF data.t # "dict" THEN Raise("AttributeError")
    ELSE LET results == Get(data, <<"results">>, JList(<<>>)) IN
    IF results.t # "list"
    THEN Return(AgencyErrorRow(ori, offense, "Unexpected response shape"))
    ELSE Return(AgencyRow(ori, offense, SumLegacy(results.xs)))

\* lines 188-264
agency_crime_parse(ori, offense, data) ==
    LET offenses == IF data.t = "dict" THEN Get(data, <<"offenses">>, JNone) ELSE JNone
        actuals == IF offenses.t = "dict" THEN Get(offenses, <<"actuals">>, JNone)
                   ELSE JNone
        month_map == IF actuals.t = "dict" /\ actuals.items # <<>>
                     THEN Get(actuals, AgencyKey(ori, actuals), JDict(<<>>))
                     ELSE JNone IN
    IF month_map.t = "dict"
    THEN Return(AgencyRow(ori, offense, SumMonthMap(month_map.items)))
    ELSE agency_legacy_parse(ori, offense, data)


\* ------------------------------------------------------------------------
\* src/get_data_by_county.py: fbi_agencies_fetch_one
\* ------------------------------------------------------------------------
\* str(x); the county values of the modelled bodies are strings or null, and
\* a null never gets here ("UNKNOWN" ends every `or` chain)
StrOf(v) == CASE v.t = "str" -> v.s

\* a or b or c or ... over a sequence of values: the first truthy, else the last
RECURSIVE FirstTruthy(_)
FirstTruthy(vs) ==
    IF Len(vs) = 1 \/ Truthy(Head(vs)) THEN Head(vs) ELSE FirstTruthy(Tail(vs))

\* lines 93-104 and 117-128: the normalized row of one agency item
NormalizedAgency(a, state, county_val) ==
    [ori |-> Get(a, <<"ori">>, JNone),
     county |-> JStr(Upper(Strip(StrOf(county_val)))),
     state_abbr |-> FirstTruthy(<<Get(a, <<"state_abbr">>, JNone),
                                  Get(a, <<"state_code">>, JNone), JStr(state)>>),
     state_name |-> Get(a, <<"state_name">>, JNone),
     agency_name |-> Get(a, <<"agency_name">>, JNone),
     agency_type_name |-> Get(a, <<"agency_type_name">>, JNone),
     is_nibrs |-> JBool(Truthy(Get(a, <<"is_nibrs">>, JNone))),
     nibrs_start_date |-> Get(a, <<"nibrs_start_date">>, JNone),
     latitude |-> Get(a, <<"latitude">>, JNone),
     longitude |-> Get(a, <<"longitude">>, JNone)]

CountyFields(a) ==
    <<Get(a, <<"counties">>, JNone), Get(a, <<"county_name">>, JNone),
      Get(a, <<"county">>, JNone)>>

\* the loop over one list of agency items; fallback is what follows the item's
\* own county fields in the `or` chain.  An item that is no dict has no .get
RECURSIVE AgencyRows(_, _, _)
AgencyRows(agencies, state, fallback) ==
    IF agencies = <<>> THEN <<>>
    ELSE LET a == Head(agencies) IN
         (IF Truthy(Get(a, <<"ori">>, JNone))
          THEN <<NormalizedAgency(a, state, FirstTruthy(CountyFields(a) \o fallback))>>
          ELSE <<>>)
         \o AgencyRows(Tail(agencies), state, fallback)

AllDicts(agencies) == \A i \in 1..Len(agencies) : agencies[i].t = "dict"

\* lines 73-104: the loop over the county dict
RECURSIVE CountyRows(_, _)
CountyRows(items, state) ==
    IF items = <<>> THEN <<>>
    ELSE (IF Head(items).v.t = "list"
          THEN AgencyRows(Head(items).v.xs, state,
                          <<JStr(Upper(Strip(Head(items).k))), JStr(<<"UNKNOWN">>)>>)
          ELSE <<>>)
         \o CountyRows(Tail(items), state)

AgenciesResult(state, error, rows) ==
    [state_abbr |-> JStr(state), error |-> error, rows |-> JList(rows)]

UnexpectedShape(state) ==
    Return(AgenciesResult(state, JStr(<<"Unexpected response shape">>), <<>>))

\* lines 63-132
fbi_agencies_parse(state, data) ==
    IF data.t = "dict"
    THEN LET county_dict == Get(data, <<"results">>, data) IN
         IF county_dict.t # "dict" THEN UnexpectedShape(state)
         ELSE IF \E i \in 1..Len(county_dict.items) :
                    /\ county_dict.items[i].v.t = "list"
                    /\ ~AllDicts(county_dict.items[i].v.xs)
         THEN Raise("AttributeError")
         ELSE Return(AgenciesResult(state, JNone, CountyRows(county_dict.items, state)))
    ELSE IF data.t = "list"
    THEN (IF ~AllDicts(data.xs) THEN Raise("AttributeError")
          ELSE Return(AgenciesResult(state, JNone,
                                      AgencyRows(data.xs, state, <<JStr(<<"UNKNOWN">>)>>))))
    ELSE UnexpectedShape(state)


\* ------------------------------------------------------------------------
\* src/get_data.py: fetch_acs_state_poverty and the table work of main
\* ------------------------------------------------------------------------
ACS_HEADER == <<"NAME", "B01003_001E", "B17001_001E", "B17001_002E", "state">>

\* the column of a raw row that the header names
Cell(row, name) == row[CHOOSE i \in 1..Len(ACS_HEADER) : ACS_HEADER[i] = name]

\* pl.col(c).cast(pl.Float64) of one cell, strict: a null stays null, a
\* numeral becomes a float (in halves), anything else fails the cast
CastFloat(v) ==
    IF v.t = "none" THEN JNone
    ELSE IF v.t = "str" /\ Len(v.s) = 1 /\ NumeralHalves(v.s[1]) >= 0
    THEN JFloat(NumeralHalves(v.s[1]))
    ELSE [t |-> "cast_error"]

RECURSIVE GCD(_, _)
GCD(a, b) == IF b = 0 THEN a ELSE GCD(b, a % b)

\* Float64 a / b * scale of two non-negative numbers given in halves: null when
\* an operand is null, inf or NaN when b is 0, else the quotient as a fraction
FloatQuot(a, b, scale) ==
    IF a.t = "none" \/ b.t = "none" THEN JNone
    ELSE IF Halves(b) = 0
    THEN (IF Halves(a) = 0 THEN [t |-> "nan"] ELSE [t |-> "inf"])
    ELSE LET n == Halves(a) * scale
             g == GCD(n, Halves(b)) IN
         [t |-> "ratio", num |-> n \div g, den |-> Halves(b) \div g]

\* lines 48-68: one row of acs_df
AcsRow(raw) ==
    LET pop == CastFloat(Cell(raw, "B01003_001E"))
        universe == CastFloat(Cell(raw, "B17001_001E"))
        below == CastFloat(Cell(raw, "B17001_002E")) IN
    [state_name |-> Cell(raw, "NAME"), total_population |-> pop,
     poverty_universe |-> universe, poverty_below |-> below,
     poverty_rate_pct |-> FloatQuot(below, universe, 100)]

CastFails(raw) ==
    \E c \in {"B01003_001E", "B17001_001E", "B17001_002E"} :
        CastFloat(Cell(raw, c)).t = "cast_error"

\* fetch_acs_state_poverty on the decoded body (its data rows)
fetch_acs_state_poverty(raws) ==
    IF \E i \in 1..Len(raws) : CastFails(raws[i])
    THEN Raise("InvalidOperationError")
    ELSE Return([i \in 1..Len(raws) |-> AcsRow(raws[i])])

\* a column of a row built from a dict: null where the dict has no such key
Col(d, c) == IF c \in DOMAIN d THEN d[c] ELSE JNone

\* a faulty variant: the two known codes are swapped
offense_label_swapped(offense) ==
    IF offense = JStr(<<"V">>) THEN <<"Property", " ", "Crime">>
    ELSE IF offense = JStr(<<"P">>) THEN <<"Violent", " ", "Crime">>
    ELSE <<"Other">>

\* lines 163-166
offense_label(offense) ==
    IF offense = JStr(<<"V">>) THEN <<"Violent", " ", "Crime">>
    ELSE IF offense = JStr(<<"P">>) THEN <<"Property", " ", "Crime">>
    ELSE <<"Other">>

\* one row of the joined table, lines 141-175; a is the matching acs row, or
\* NoAcs when the left join found none
NoAcs ==
    [state_name |-> JNone, total_population |-> JNone, poverty_universe |-> JNone,
     poverty_below |-> JNone, poverty_rate_pct |-> JNone]

CombinedRow(c, a) ==
    [state_abbr |-> Col(c, "state_abbr"),
     state_name |-> Col(c, "state_name"),
     offense |-> Col(c, "offense"),
     total_crime |-> Col(c, "total_2023"),
     crime_rate_per_100k |-> FloatQuot(Col(c, "total_2023"), a.total_population, 100000),
     total_population |-> a.total_population,
     poverty_universe |-> a.poverty_universe,
     below_poverty |-> a.poverty_below,
     poverty_rate_pct |-> a.poverty_rate_pct,
     offense_label |-> offense_label(Col(c, "offense"))]

\* the acs rows a crime row joins with: equal, non-null state_name
Matches(c, acs) ==
    SelectSeq(acs, LAMBDA a : Col(c, "state_name").t # "none"
                              /\ a.state_name = Col(c, "state_name"))

\* crime_df.join(acs_df, on="state_name", how="left") and the derived columns
RECURSIVE LeftJoin(_, _)
LeftJoin(crime, acs) ==
    IF crime = <<>> THEN <<>>
    ELSE LET c == Head(crime)
             m == Matches(c, acs) IN
         (IF m = <<>> THEN <<CombinedRow(c, NoAcs)>>
          ELSE [i \in 1..Len(m) |-> CombinedRow(c, m[i])])
         \o LeftJoin(Tail(crime), acs)

\* the sort key of line 168: the lower-cased label; the three labels order as
\* "other" < "property crime" < "violent crime"
LabelRank(label) ==
    CASE Lower(label) = <<"other">> -> 1
      [] Lower(label) = <<"property", " ", "crime">> -> 2
      [] Lower(label) = <<"violent", " ", "crime">> -> 3

\* the orders DataFrame.sort may leave the rows in: sorted by the key, rows of
\* equal key in any order (sort is not given maintain_order=True)
RECURSIVE Perms(_)
Perms(q) ==
    IF q = <<>> THEN {<<>>}
    ELSE UNION {{<<q[i]>> \o r :
                    r \in Perms(SubSeq(q, 1, i - 1) \o SubSeq(q, i + 1, Len(q)))} :
                i \in 1..Len(q)}

Ranked(table, r) == SelectSeq(table, LAMBDA row : LabelRank(row.offense_label) = r)

Sorts(table) ==
    {g[1] \o g[2] \o g[3] :
        g \in Perms(Ranked(table, 1)) \X Perms(Ranked(table, 2)) \X Perms(Ranked(table, 3))}

\* pl.DataFrame(crime_raw) infers the Null dtype for a state_name column that
\* holds only nulls
NullJoinKey(crime_raw) ==
    \A i \in 1..Len(crime_raw) : Col(crime_raw[i], "state_name").t = "none"

\* lines 136-177 once the fan-out has returned crime_raw, given the data rows
\* of the census response: the ways main may end.  It writes one of the tables
\* the sort may produce, or an exception ends it: a failed cast, an empty
\* crime_raw (a frame without a state_name column), and, in the polars
\* releases that refuse to join a Null key column with a String one, a
\* crime_raw of error rows only
main_outcomes(crime_raw, raws) ==
    LET acs == fetch_acs_state_poverty(raws) IN
    IF acs.kind = "raise" THEN {acs}
    ELSE IF crime_raw = <<>> THEN {Raise("ColumnNotFoundError")}
    ELSE {Return(t) : t \in Sorts(LeftJoin(crime_raw, acs.value))}
         \cup (IF NullJoinKey(crime_raw) THEN {Raise("SchemaError")} ELSE {})

\* ------------------------------------------------------------------------
\* Response bodies
\* ------------------------------------------------------------------------
Obj1(k, v) == JDict(<<Item(<<k>>, v)>>)

\* {"offenses": {"actuals": <actuals>}}
NewShape(actuals) == Obj1("offenses", Obj1("actuals", actuals))

\* sequences of at most n items of S with pairwise distinct keys
RECURSIVE ItemSeqs(_, _)
ItemSeqs(S, n) ==
    IF n = 0 THEN {<<>>}
    ELSE LET shorter == ItemSeqs(S, n - 1) IN
         shorter \cup
         {Append(qx[1], qx[2]) : qx \in
            {qx \in shorter \X S :
                Len(qx[1]) = n - 1 /\ \A i \in 1..Len(qx[1]) : qx[1][i].k # qx[2].k}}

\* sequences of at most n elements of S
SeqsUpTo(S, n) == UNION {[1..m -> S] : m \in 0..n}

PeriodKeys ==
    {<<"01", "-", "2023">>, <<"2023", "-", "01">>, <<"01", "-", "2024">>,
     <<" ", "02", "-", "2023">>}

PeriodValues ==
    {JInt(1), JInt(2), JInt(-1), JFloat(3), JStr(<<"2">>), JStr(<<"n/a">>), JNone}

PeriodMaps ==
    {JDict(q) : q \in ItemSeqs({Item(kv[1], kv[2]) : kv \in PeriodKeys \X PeriodValues},
                               MaxMonths)}

AL == <<"AL">>
CA == <<"CA">>
ORI1 == <<"ORI", "1">>
ORI2 == <<"ORI", "2">>
Alabama == <<"Alabama">>

SeriesKeys ==
    {Alabama, <<"United", " ", "States">>, <<"Alabama", " ", "Clearance", "s">>,
     <<"alabama", " ", "clearance", "s">>, AL, ORI1}

\* the series a response carries under key k: one month of the target year
\* whose count tells the series apart
SeriesCount(k) ==
    CASE k = Alabama -> 1
      [] k = <<"United", " ", "States">> -> 2
      [] k = <<"Alabama", " ", "Clearance", "s">> -> 3
      [] k = <<"alabama", " ", "clearance", "s">> -> 4
      [] k = AL -> 5
      [] OTHER -> 6

Series(k) == Item(k, JDict(<<Item(<<"01", "-", "2023">>, JInt(SeriesCount(k)))>>))

\* one selected series, every period map
SumPayloads == {NewShape(JDict(<<Item(Alabama, pm)>>)) : pm \in PeriodMaps}

\* every actuals map of at most MaxSeries series
KeyPayloads ==
    {NewShape(JDict(q)) : q \in ItemSeqs({Series(k) : k \in SeriesKeys}, MaxSeries)}

LegacyRecords ==
    {JDict(<<Item(<<"actual">>, JInt(1)), Item(<<"data_year">>, JInt(2023))>>),
     JDict(<<Item(<<"actual">>, JInt(2)), Item(<<"data_year">>, JInt(2024))>>),
     JDict(<<Item(<<"offense_count">>, JStr(<<"2">>)),
             Item(<<"year">>, JStr(<<"FY", " ", "2023">>))>>),
     JDict(<<Item(<<"count">>, JFloat(3)),
             Item(<<"month">>, JStr(<<"01", "-", "2023">>))>>),
     JDict(<<Item(<<"actual">>, JNone), Item(<<"value">>, JInt(2)),
             Item(<<"data_month">>, JStr(<<" ", "2023", "-", "02">>))>>),
     JDict(<<Item(<<"actual">>, JStr(<<"n/a">>)), Item(<<"data_year">>, JInt(2023))>>),
     JDict(<<Item(<<"actual">>, JInt(1)), Item(<<"data_year">>, JNone),
             Item(<<"year">>, JInt(2023))>>),
     JInt(1)}

LegacyLists == {JList(q) : q \in SeqsUpTo(LegacyRecords, MaxRecords)}

LegacyPayloads == LegacyLists \cup {Obj1("results", l) : l \in LegacyLists}

\* bodies of no recognised shape
ShapePayloads ==
    {JInt(5), JNone, JStr(<<"busy">>), JDict(<<>>),
     Obj1("offenses", JNone), Obj1("offenses", JList(<<JInt(1)>>)),
     Obj1("offenses", JStr(<<"busy">>)), Obj1("offenses", JDict(<<>>)),
     NewShape(JNone), NewShape(JList(<<JInt(1)>>)), NewShape(JDict(<<>>)),
     NewShape(JDict(<<Item(Alabama, JList(<<JInt(1)>>))>>)),
     NewShape(JDict(<<Item(Alabama, JStr(<<"busy">>))>>)),
     NewShape(JDict(<<Item(Alabama, JNone)>>)),
     Obj1("results", JStr(<<"busy">>)), Obj1("results", JNone),
     Obj1("message", JStr(<<"busy">>))}

\* the bodies behind the crime rows main starts from
MainPayloads ==
    {NewShape(JDict(<<Series(Alabama)>>)), NewShape(JDict(<<Series(<<"California">>)>>)),
     JDict(<<>>)}

Payloads == SumPayloads \cup KeyPayloads \cup LegacyPayloads \cup ShapePayloads

\* data rows of the census response
RawAcs(name, pop, universe, below) == <<name, pop, universe, below, JStr(<<"01">>)>>

AcsRaws ==
    {RawAcs(JStr(Alabama), JStr(<<"500000">>), JStr(<<"100">>), JStr(<<"50">>)),
     RawAcs(JStr(Alabama), JStr(<<"0">>), JStr(<<"0">>), JStr(<<"0">>)),
     RawAcs(JStr(<<"California">>), JNone, JStr(<<"100">>), JNone),
     RawAcs(JStr(Alabama), JStr(<<"N">>), JStr(<<"100">>), JStr(<<"50">>))}

AcsTables == SeqsUpTo(AcsRaws, MaxAcsRows)

\* the census responses of the fan-out runs
AcsFan ==
    {<<RawAcs(JStr(Alabama), JStr(<<"500000">>), JStr(<<"100">>), JStr(<<"50">>))>>}

\* bodies of the agency lookup (agency/byStateAbbr)
Agency(ori, county) ==
    JDict(<<Item(<<"ori">>, ori), Item(<<"county_name">>, county),
            Item(<<"is_nibrs">>, JBool(TRUE))>>)

AgencyItems ==
    {Agency(JStr(ORI1), JStr(<<" ", "Lee">>)), Agency(JStr(ORI2), JNone),
     Agency(JNone, JStr(<<"Bath">>))}

AgencyBodies ==
    {JDict(<<Item(<<"bath">>, JList(q))>>) : q \in SeqsUpTo(AgencyItems, MaxRecords)}
    \cup {Obj1("results", JDict(<<Item(<<"LEE">>, JList(<<a>>))>>)) : a \in AgencyItems}
    \cup {JList(q) : q \in SeqsUpTo(AgencyItems, MaxRecords)}
    \cup {Obj1("results", JList(<<>>)), Obj1("LEE", JStr(<<"busy">>)),
          Obj1("LEE", JList(<<JInt(1)>>)), JList(<<JInt(1)>>), JInt(5), JNone}

\* the agency lookups of the fan-out runs
AgenciesFan ==
    {Obj1("LEE", JList(<<Agency(JStr(ORI1), JNone)>>)), JList(<<JInt(1)>>), JInt(5)}

\* the bodies of the fan-out runs: a good one, a bare list, an empty object
FanPayloads ==
    {NewShape(JDict(<<Series(Alabama)>>)), JList(<<>>), JDict(<<>>)}

\* ------------------------------------------------------------------------
\* src/get_data_by_county.py: the table work of agency_crime_fetch_all_from_df
\* ------------------------------------------------------------------------
\* A table is [columns |-> its column names, rows |-> its rows]; of the
\* columns of agencies_2023.csv the model keeps ori and county.
\* agency_crime_fetch_all_from_df, lines 279-285: the ORIs are made unique
Unique(q) == \A i, k \in 1..Len(q) : i # k => q[i] # q[k]

\* agencies_2023_df.get_column("ori").drop_nulls(): the values that are left
OriValues(df) == {df.rows[i].ori : i \in 1..Len(df.rows)} \ {JNone}

\* lines 275-285: no ORI without an "ori" column (the function returns an
\* empty table at once); else .drop_nulls().unique().to_list(), in any of the
\* orders unique() may give, less the values that are blank
Oris(df) ==
    IF "ori" \notin df.columns THEN {<<>>}
    ELSE {SelectSeq(q, LAMBDA o : Strip(o.s) # <<>>) :
            q \in {u \in [1..Cardinality(OriValues(df)) -> OriValues(df)] : Unique(u)}}

\* the rows of a table at the positions of I, in the table's order
RECURSIVE Kept(_, _, _)
Kept(table, I, i) ==
    IF i > Len(table) THEN <<>>
    ELSE (IF i \in I THEN <<table[i]>> ELSE <<>>) \o Kept(table, I, i + 1)

\* a faulty variant: the metadata keeps its duplicate ORIs
MetaKeepsDuplicates(df) == {df.rows}

\* line 304: agencies_2023_df.select(meta_cols).unique(subset=["ori"]) keeps
\* one row for each value of ori, any of the rows that have it
Meta(df) ==
    {Kept(df.rows, I, 1) :
        I \in {K \in SUBSET (1..Len(df.rows)) :
                 \A i \in 1..Len(df.rows) :
                    Cardinality({k \in K : df.rows[k].ori = df.rows[i].ori}) = 1}}

\* the metadata rows a result row joins with: equal, non-null ori
MetaMatches(r, meta) ==
    SelectSeq(meta, LAMBDA m : r.ori.t # "none" /\ m.ori = r.ori)

NoMeta == [ori |-> JNone, county |-> JNone]

\* one row of the joined table: the columns pl.from_dicts gives the results
\* (null where a result has no such key) and the metadata columns
JoinedRow(r, m) ==
    [ori |-> r.ori, offense |-> r.offense, total_2023 |-> Col(r, "total_2023"),
     error |-> Col(r, "error"), county |-> m.county]

\* line 305: out.join(meta, on="ori", how="left")
RECURSIVE JoinMeta(_, _)
JoinMeta(table, meta) ==
    IF table = <<>> THEN <<>>
    ELSE LET r == Head(table)
             m == MetaMatches(r, meta) IN
         (IF m = <<>> THEN <<JoinedRow(r, NoMeta)>>
          ELSE [i \in 1..Len(m) |-> JoinedRow(r, m[i])])
         \o JoinMeta(Tail(table), meta)

\* lines 296-307: the tables the function may return for the collected rows
agency_crime_table(collected, df) ==
    IF collected = <<>> THEN {<<>>}
    ELSE {JoinMeta(collected, meta) : meta \in Meta(df)}

\* the rows of the agency table the runs are given: an agency listed twice
\* with differing metadata, a second agency, a row without ORI, a blank ORI
AgencyTableRows ==
    {[ori |-> JStr(ORI1), county |-> JStr(<<"Lee">>)],
     [ori |-> JStr(ORI1), county |-> JStr(<<"Bath">>)],
     [ori |-> JStr(ORI2), county |-> JStr(<<"Lee">>)],
     [ori |-> JNone, county |-> JStr(<<"Lee">>)],
     [ori |-> JStr(<<" ">>), county |-> JStr(<<"Lee">>)]}

AgencyTables ==
    {[columns |-> {"ori", "county"}, rows |-> q] :
        q \in SeqsUpTo(AgencyTableRows, MaxAgencies)}
    \cup {[columns |-> {"county"}, rows |-> <<[county |-> JStr(<<"Lee">>)]>>]}

\* the agency tables of the runs of the whole program: every agency once
AgencyFan ==
    {[columns |-> {"ori", "county"}, rows |-> q] :
        q \in {<<>>,
               <<[ori |-> JStr(ORI1), county |-> JStr(<<"Lee">>)]>>,
               <<[ori |-> JStr(ORI2), county |-> JStr(<<"Lee">>)]>>,
               <<[ori |-> JStr(ORI1), county |-> JStr(<<"Lee">>)],
                 [ori |-> JStr(ORI2), county |-> JStr(<<"Lee">>)]>>}}

\* what stands for the agency table in the runs that read none
NoTable == [columns |-> {}, rows |-> <<>>]

\* ------------------------------------------------------------------------
\* State
\* ------------------------------------------------------------------------
VARIABLES
    fn,         \* the fan-out that runs: "fbi_crime_fetch_all" (get_data.py),
                \* "agency_crime_fetch_all_from_df" or "fbi_agencies_fetch_all"
                \* (get_data_by_county.py)
    jobs,       \* the job list, in submission order: <<[ent, off], ...>>; a job
                \* of fbi_agencies_fetch_all has no offense (off is "")
    retries,    \* the retries argument of the fetch-one calls
    harness,    \* what drives the code: "fetch_one" (one direct call, any retries
                \* argument, any response body, failures that come and go),
                \* "fan_out" (a run of the program: the default retries, the
                \* bodies of FanPayloads, an endpoint that is up or down for
                \* the whole of a call), "main" (main of get_data.py from the
                \* return of its fan-out on, any census response) or "table"
                \* (agency_crime_fetch_all_from_df on any agency table, with
                \* an endpoint that answers every request)
    st,         \* per job: "pending" | "running" | "sleeping" | "done"
    attempt,    \* per job: the loop variable of `for attempt in range(retries)`
    nreq,       \* per job: requests.get calls made so far
    slept,      \* per job: the time.sleep arguments so far, in tenths of a second
    resp,       \* per job: the decoded body of the response it parsed, if any
    fut,        \* per job: the outcome held by its future once done
    yielded,    \* the futures as_completed has handed to the collecting loop
    rows,       \* the rows list of the collecting thread
    pc,         \* the module: "startup" | "exited"; then the fan-out:
                \* "collecting" | "raising" | "returned" | "raised";
                \* then main: "exported" | "main_raised"
    log,        \* the lines printed so far
    acs_raw,    \* main: the data rows of the census response
    combined_data,  \* main: the table written to crime_plus_poverty_2023.csv
    FBI_API_KEY,    \* os.getenv("FBI_API_KEY"): None, or a string
    exit_code,  \* the exit status of the process once it has ended, else None
    offenses_arg,       \* the offenses argument of the fan-out
    agencies_2023_df,   \* the agency table given to agency_crime_fetch_all_from_df
    out         \* the table agency_crime_fetch_all_from_df returns

vars == <<fn, jobs, retries, harness, st, attempt, nreq, slept, resp, fut, yielded,
          rows, pc, log, acs_raw, combined_data, FBI_API_KEY, exit_code,
          offenses_arg, agencies_2023_df, out>>

\* the variables of the fetch-one calls, of the collecting thread, of the
\* table work after a fan-out, and the inputs of a run
call_vars == <<st, attempt, nreq, slept, resp, fut>>
fan_vars == <<yielded, rows, pc, log>>
main_vars == <<acs_raw, combined_data, out>>
config_vars == <<fn, jobs, retries, harness, FBI_API_KEY, offenses_arg, agencies_2023_df>>

NoResp == [t |-> "absent"]
NoFut == [kind |-> "none"]

J == 1..Len(jobs)

\* jobs = [(st, off) for st in states for off in offenses]
Jobs(entities, offenses) ==
    [i \in 1..(Len(entities) * Len(offenses)) |->
        [ent |-> entities[((i - 1) \div Len(offenses)) + 1],
         off |-> offenses[((i - 1) % Len(offenses)) + 1]]]

\* jobs started and not yet returned, sleeping ones included
InFlight == {j \in J : st[j] \in {"running", "sleeping"}}

\* the response bodies the endpoint may answer with
Bodies ==
    IF fn = "fbi_agencies_fetch_all"
    THEN (IF harness = "fetch_one" THEN AgencyBodies ELSE AgenciesFan)
    ELSE (IF harness = "fetch_one" THEN Payloads ELSE FanPayloads)

\* ------------------------------------------------------------------------
\* Module level: the credential check
\* ------------------------------------------------------------------------
\* a faulty variant: only an unset variable counts as missing
KeyIsNone == FBI_API_KEY = JNone

\* if not FBI_API_KEY
KeyMissing == ~Truthy(FBI_API_KEY)

KEY_MESSAGE == <<"Set FBI_API_KEY environment variable with your Data.gov key.">>

\* the first statements of the module: with no key, raise SystemExit(message),
\* which prints the message and ends the process with status 1; with a key
\* the module goes on to its definitions and to the fan-out
StartUp ==
    /\ pc = "startup"
    /\ IF KeyMissing
       THEN /\ pc' = "exited"
            /\ exit_code' = JInt(1)
            /\ log' = Append(log, KEY_MESSAGE)
       ELSE /\ pc' = "collecting"
            /\ UNCHANGED <<exit_code, log>>
    /\ UNCHANGED <<yielded, rows>>
    /\ UNCHANGED <<config_vars, call_vars, main_vars>>

\* ------------------------------------------------------------------------
\* The fetch-one calls, one job each
\* ------------------------------------------------------------------------
\* the result a fetch-one returns when its last attempt raised RequestException
TransportErrorRow(job) ==
    CASE fn = "fbi_crime_fetch_all" ->
            CrimeErrorRow(job.ent, job.off, "RequestException")
      [] fn = "agency_crime_fetch_all_from_df" ->
            AgencyErrorRow(job.ent, job.off, "RequestException")
      [] fn = "fbi_agencies_fetch_all" ->
            AgenciesResult(job.ent, JStr(<<"RequestException">>), <<>>)

\* what a fetch-one does with the decoded body of a 2xx response
Parse(job, data) ==
    CASE fn = "fbi_crime_fetch_all" -> fbi_crime_parse(job.ent, job.off, data)
      [] fn = "agency_crime_fetch_all_from_df" ->
            agency_crime_parse(job.ent, job.off, data)
      [] fn = "fbi_agencies_fetch_all" -> fbi_agencies_parse(job.ent, data)

\* agency_crime_fetch_one, lines 156-158: refused before any request
RefusedOffense(job) ==
    fn = "agency_crime_fetch_all_from_df" /\ job.off \notin {<<"V">>, <<"P">>}

\* a faulty variant: a thread asleep in its backoff counts as idle
PoolCountsRunningOnly == Cardinality({j \in J : st[j] = "running"}) < max_workers

\* ThreadPoolExecutor(max_workers=...): a queued job starts only on an idle thread
PoolHasIdleThread == Cardinality(InFlight) < max_workers

\* a faulty variant: the loop counts one attempt too many
LastAttemptOffByOne(j) == attempt[j] = retries

\* the loop ends after this attempt if it fails
LastAttempt(j) == attempt[j] = retries - 1

Finish(j, outcome) ==
    /\ st' = [st EXCEPT ![j] = "done"]
    /\ fut' = [fut EXCEPT ![j] = outcome]

\* A pool thread takes the next job off the work queue (FIFO) and calls
\* fetch-one: ThreadPoolExecutor(max_workers=...) never runs more threads.
\* With retries=0 the body of `for attempt in range(retries)` never runs and
\* the function falls off its end: it returns None.
Start(j) ==
    /\ pc \in {"collecting", "raising"}
    /\ st[j] = "pending"
    /\ \A i \in J : i < j => st[i] # "pending"
    /\ PoolHasIdleThread
    /\ IF RefusedOffense(jobs[j])
       THEN Finish(j, Return(AgencyErrorRow(jobs[j].ent, jobs[j].off,
                                            "offense must be 'V' or 'P'")))
       ELSE IF retries = 0
       THEN Finish(j, Return(JNone))
       ELSE /\ st' = [st EXCEPT ![j] = "running"]
            /\ fut' = fut
    /\ UNCHANGED <<attempt, nreq, slept, resp>>
    /\ UNCHANGED <<config_vars, fan_vars, main_vars, exit_code>>

\* requests.get / raise_for_status raises RequestException
AttemptFails(j) ==
    /\ st[j] = "running"
    /\ nreq' = [nreq EXCEPT ![j] = @ + 1]
    /\ IF LastAttempt(j)
       THEN /\ Finish(j, Return(TransportErrorRow(jobs[j])))
            /\ slept' = slept
       ELSE /\ st' = [st EXCEPT ![j] = "sleeping"]
            /\ slept' = [slept EXCEPT ![j] = Append(@, SleepFor(attempt[j]))]
            /\ fut' = fut
    /\ UNCHANGED <<attempt, resp>>
    /\ UNCHANGED <<config_vars, fan_vars, main_vars, exit_code>>

\* time.sleep returns; the loop goes to its next attempt
Wake(j) ==
    /\ st[j] = "sleeping"
    /\ st' = [st EXCEPT ![j] = "running"]
    /\ attempt' = [attempt EXCEPT ![j] = @ + 1]
    /\ UNCHANGED <<nreq, slept, resp, fut>>
    /\ UNCHANGED <<config_vars, fan_vars, main_vars, exit_code>>

\* a 2xx response with a JSON body: the rest of the try block runs
AttemptResponds(j) ==
    /\ st[j] = "running"
    /\ harness = "fan_out" => attempt[j] = 0
    /\ \E data \in Bodies :
        /\ resp' = [resp EXCEPT ![j] = data]
        /\ Finish(j, Parse(jobs[j], data))
    /\ nreq' = [nreq EXCEPT ![j] = @ + 1]
    /\ UNCHANGED <<attempt, slept>>
    /\ UNCHANGED <<config_vars, fan_vars, main_vars, exit_code>>

\* ------------------------------------------------------------------------
\* The collecting thread: for fut in cf.as_completed(futs): ...
\* ------------------------------------------------------------------------
\* a faulty variant: rows = [fut.result()] in place of rows.append(fut.result())
CollectedOverwrites(res) ==
    IF fn = "fbi_agencies_fetch_all" THEN res.rows.xs ELSE <<res>>

\* a faulty variant: the result is inserted twice
CollectedTwice(res) ==
    IF fn = "fbi_agencies_fetch_all" THEN rows \o res.rows.xs \o res.rows.xs
    ELSE rows \o <<res, res>>

\* what the loop body does with the result of one future:
\* rows.append(fut.result()) in the crime fan-outs, rows.extend(res["rows"])
\* in fbi_agencies_fetch_all
Collected(res) ==
    IF fn = "fbi_agencies_fetch_all" THEN rows \o res.rows.xs ELSE Append(rows, res)

\* fbi_agencies_fetch_all prints the error of a failed state; the crime
\* fan-outs print nothing
Logged(res) ==
    IF fn = "fbi_agencies_fetch_all" /\ Truthy(res.error)
    THEN Append(log, <<"[ERR]", res.state_abbr.s, res.error.s>>)
    ELSE log

Collect(j) ==
    /\ pc = "collecting"
    /\ st[j] = "done"
    /\ j \notin yielded
    /\ yielded' = yielded \cup {j}
    /\ IF fut[j].kind = "raise"
       THEN /\ pc' = "raising"
            /\ UNCHANGED <<rows, log>>
       ELSE /\ rows' = Collected(fut[j].value)
            /\ log' = Logged(fut[j].value)
            /\ pc' = pc
    /\ UNCHANGED <<config_vars, call_vars, main_vars, exit_code>>

\* every future was yielded: the with block ends and the fan-out returns
\* rows; agency_crime_fetch_all_from_df first makes a table of them and joins
\* the metadata back
FanOutReturns ==
    /\ pc = "collecting"
    /\ yielded = J
    /\ pc' = "returned"
    /\ IF fn = "agency_crime_fetch_all_from_df"
       THEN out' \in agency_crime_table(rows, agencies_2023_df)
       ELSE out' = out
    /\ UNCHANGED <<yielded, rows, log>>
    /\ UNCHANGED <<config_vars, call_vars, acs_raw, combined_data, exit_code>>

\* fut.result() re-raised a job's exception: the with block's exit waits for
\* the pool (shutdown(wait=True)), then the exception leaves the fan-out;
\* nothing catches it, and the process ends with a traceback
FanOutRaises ==
    /\ pc = "raising"
    /\ \A j \in J : st[j] = "done"
    /\ pc' = "raised"
    /\ exit_code' = JInt(1)
    /\ UNCHANGED <<yielded, rows, log>>
    /\ UNCHANGED <<config_vars, call_vars, main_vars>>

\* ------------------------------------------------------------------------
\* src/get_data.py: main, after fbi_crime_fetch_all has returned
\* ------------------------------------------------------------------------
\* the census responses the endpoint may answer with; the model stops at
\* joined tables of MaxCombined rows
AcsBodies ==
    {raws \in (IF harness = "main" THEN AcsTables ELSE AcsFan) :
        Cardinality({i \in 1..Len(rows) :
                        Col(rows[i], "state_name").t # "none"}) * Len(raws) <= MaxCombined}

\* requests.get or raise_for_status raises in fetch_acs_state_poverty, which
\* does not retry: the exception ends main
MainAcsFails ==
    /\ pc = "returned"
    /\ fn = "fbi_crime_fetch_all"
    /\ pc' = "main_raised"
    /\ exit_code' = JInt(1)
    /\ UNCHANGED <<yielded, rows, log>>
    /\ UNCHANGED <<config_vars, call_vars, main_vars>>

\* the census response arrives: join, rate, label, sort, rename, write_csv,
\* and the row count is printed
MainExports ==
    /\ pc = "returned"
    /\ fn = "fbi_crime_fetch_all"
    /\ \E raws \in AcsBodies :
       \E outcome \in main_outcomes(rows, raws) :
        /\ acs_raw' = raws
        /\ IF outcome.kind = "raise"
           THEN /\ pc' = "main_raised"
                /\ exit_code' = JInt(1)
                /\ UNCHANGED <<combined_data, log>>
           ELSE /\ pc' = "exported"
                /\ exit_code' = JInt(0)
                /\ combined_data' = outcome.value
                /\ log' = Append(log, <<"Rows in combined_data:", Len(combined_data')>>)
    /\ UNCHANGED <<yielded, rows, out>>
    /\ UNCHANGED <<config_vars, call_vars>>

\* one fetch-one call
NextOne ==
    \/ \E j \in J : Start(j)
    \/ \E j \in J : AttemptFails(j)
    \/ \E j \in J : Wake(j)
    \/ \E j \in J : AttemptResponds(j)

\* main, from the return of the fan-out on
NextMain ==
    \/ MainAcsFails
    \/ MainExports

Next ==
    \/ StartUp
    \/ \E j \in J : Start(j)
    \/ \E j \in J : AttemptFails(j)
    \/ \E j \in J : Wake(j)
    \/ \E j \in J : AttemptResponds(j)
    \/ \E j \in J : Collect(j)
    \/ FanOutReturns
    \/ FanOutRaises
    \/ MainAcsFails
    \/ MainExports

\* ------------------------------------------------------------------------
\* Initial states
\* ------------------------------------------------------------------------
InitJobs(js) ==
    /\ jobs = js
    /\ st = [j \in 1..Len(js) |-> "pending"]
    /\ attempt = [j \in 1..Len(js) |-> 0]
    /\ nreq = [j \in 1..Len(js) |-> 0]
    /\ slept = [j \in 1..Len(js) |-> <<>>]
    /\ resp = [j \in 1..Len(js) |-> NoResp]
    /\ fut = [j \in 1..Len(js) |-> NoFut]
    /\ yielded = {}
    /\ rows = <<>>
    /\ log = <<>>
    /\ acs_raw = <<>>
    /\ combined_data = <<>>
    /\ exit_code = JNone
    /\ out = <<>>

FanOuts ==
    {"fbi_crime_fetch_all", "agency_crime_fetch_all_from_df", "fbi_agencies_fetch_all"}

EntitiesOf(f) == IF f = "agency_crime_fetch_all_from_df" THEN {ORI1, ORI2} ELSE {AL, CA}

OffenseLists(f) ==
    CASE f = "fbi_crime_fetch_all" -> {<<>>, <<<<"V">>>>, <<<<"V">>, <<"P">>>>}
      [] f = "agency_crime_fetch_all_from_df" ->
            {<<>>, <<<<"V">>>>, <<<<"V">>, <<"P">>>>, <<<<"V">>, <<"X">>>>}
      [] f = "fbi_agencies_fetch_all" -> {<<<<>>>>}

\* the values os.getenv("FBI_API_KEY") may return
KeyValues == {JNone, JStr(<<>>), JStr(<<"key">>)}

\* the start of the process: the module is about to run its first statements;
\* further on is a fan-out over a list of entities and a list of offenses
Init ==
    /\ fn \in FanOuts
    /\ retries = retries_default
    /\ harness = "fan_out"
    /\ FBI_API_KEY \in KeyValues
    /\ pc = "startup"
    /\ agencies_2023_df \in
          (IF fn = "agency_crime_fetch_all_from_df" THEN AgencyFan ELSE {NoTable})
    /\ \E entities \in SeqsUpTo(EntitiesOf(fn), MaxEntities) :
       \E offenses \in OffenseLists(fn) :
          /\ Len(entities) * Len(offenses) <= MaxJobs
          /\ fn = "agency_crime_fetch_all_from_df" =>
                \E oris \in Oris(agencies_2023_df) :
                    entities = [i \in 1..Len(oris) |-> oris[i].s]
          /\ offenses_arg = offenses
          /\ InitJobs(Jobs(entities, offenses))

Spec == Init /\ [][Next]_vars

\* what the claims about termination assume: every HTTP attempt returns or
\* times out (requests.get has timeout=30), every sleep ends, the pool's
\* threads and the collecting thread are scheduled, and the census request of
\* main returns or times out (timeout=60)
Fairness ==
    /\ WF_vars(StartUp)
    /\ \A j \in 1..MaxJobs :
          WF_vars(j \in J /\ (Start(j) \/ AttemptFails(j) \/ Wake(j) \/ AttemptResponds(j)))
    /\ WF_vars(\E j \in J : Collect(j))
    /\ WF_vars(FanOutReturns \/ FanOutRaises)
    /\ WF_vars(MainAcsFails \/ MainExports)

SpecLive == Init /\ [][Next]_vars /\ Fairness

\* one fetch-one call, with every retries argument and every response body
InitOne ==
    /\ fn \in FanOuts
    /\ retries \in 0..MaxRetries
    /\ harness = "fetch_one"
    /\ FBI_API_KEY = JStr(<<"key">>)
    /\ pc = "collecting"
    /\ \E ent \in (IF fn = "agency_crime_fetch_all_from_df" THEN {ORI1} ELSE {AL}) :
       \E off \in (CASE fn = "fbi_crime_fetch_all" -> {<<"V">>}
                     [] fn = "agency_crime_fetch_all_from_df" -> {<<"V">>, <<"X">>}
                     [] fn = "fbi_agencies_fetch_all" -> {<<>>}) :
          /\ offenses_arg = <<off>>
          /\ InitJobs(<<[ent |-> ent, off |-> off]>>)
    /\ agencies_2023_df = NoTable

SpecOne == InitOne /\ [][NextOne]_vars

\* the ways a fetch-one call of the fan-out run can have ended: the endpoint
\* down for the whole call, or a first response whose body it could parse
JobEnds(job) ==
    {[resp |-> NoResp, fut |-> Return(CrimeErrorRow(job.ent, job.off, "RequestException")),
      attempt |-> retries_default - 1, nreq |-> retries_default,
      slept |-> [a \in 1..(retries_default - 1) |-> SleepFor(a - 1)]]}
    \cup
    {[resp |-> data, fut |-> fbi_crime_parse(job.ent, job.off, data),
      attempt |-> 0, nreq |-> 1, slept |-> <<>>] :
        data \in {d \in MainPayloads : fbi_crime_parse(job.ent, job.off, d).kind = "return"}}

\* main at the return of fbi_crime_fetch_all: every job done and collected,
\* in any completion order.  The offense list is OFFENSES, or that list after
\* an edit of the configuration that leaves one of its codes or adds a code
\* that is neither "V" nor "P".
InitMain ==
    /\ fn = "fbi_crime_fetch_all"
    /\ retries = retries_default
    /\ harness = "main"
    /\ \E entities \in SeqsUpTo({AL}, MaxCrimeRows) :
       \E offenses \in {<<<<"V">>>>, <<<<"V">>, <<"P">>>>, <<<<"V">>, <<"X">>>>} :
          /\ Len(entities) * Len(offenses) <= MaxCrimeRows
          /\ jobs = Jobs(entities, offenses)
          /\ offenses_arg = offenses
    /\ agencies_2023_df = NoTable
    /\ out = <<>>
    /\ \E ends \in [1..Len(jobs) -> UNION {JobEnds(jobs[j]) : j \in 1..Len(jobs)}] :
          /\ \A j \in 1..Len(jobs) : ends[j] \in JobEnds(jobs[j])
          /\ st = [j \in 1..Len(jobs) |-> "done"]
          /\ attempt = [j \in 1..Len(jobs) |-> ends[j].attempt]
          /\ nreq = [j \in 1..Len(jobs) |-> ends[j].nreq]
          /\ slept = [j \in 1..Len(jobs) |-> ends[j].slept]
          /\ resp = [j \in 1..Len(jobs) |-> ends[j].resp]
          /\ fut = [j \in 1..Len(jobs) |-> ends[j].fut]
    /\ yielded = 1..Len(jobs)
    /\ rows \in {[i \in 1..Len(jobs) |-> fut[p[i]].value] :
                    p \in Perms([j \in 1..Len(jobs) |-> j])}
    /\ pc = "returned"
    /\ log = <<>>
    /\ acs_raw = <<>>
    /\ combined_data = <<>>
    /\ FBI_API_KEY = JStr(<<"key">>)
    /\ exit_code = JNone

SpecMain == InitMain /\ [][NextMain]_vars

\* agency_crime_fetch_all_from_df at its call, on any agency table
InitTable ==
    /\ fn = "agency_crime_fetch_all_from_df"
    /\ retries = retries_default
    /\ harness = "table"
    /\ FBI_API_KEY = JStr(<<"key">>)
    /\ pc = "collecting"
    /\ agencies_2023_df \in AgencyTables
    /\ \E oris \in Oris(agencies_2023_df) :
       \E offenses \in OffenseLists(fn) :
          /\ Len(oris) * Len(offenses) <= MaxJobs
          /\ offenses_arg = offenses
          /\ InitJobs(Jobs([i \in 1..Len(oris) |-> oris[i].s], offenses))

\* the fan-out of the function, every request answered
NextTable ==
    \/ \E j \in J : Start(j)
    \/ \E j \in J : AttemptResponds(j)
    \/ \E j \in J : Collect(j)
    \/ FanOutReturns
    \/ FanOutRaises

SpecTable == InitTable /\ [][NextTable]_vars

\* ------------------------------------------------------------------------
\* Properties
\* ------------------------------------------------------------------------
\* the job's call made no request that was answered: every attempt so far failed
EveryRequestFailed(j) == resp[j] = NoResp /\ ~RefusedOffense(jobs[j])

\* C1: with retries = N >= 1 and an endpoint whose every request fails, a
\* fetch-one call (fbi_crime_fetch_one, agency_crime_fetch_one,
\* fbi_agencies_fetch_one) never makes more than N requests and, once it has
\* ended, has made exactly N, has slept N-1 times, the i-th time (from 0) for
\* backoff*2^i, and has returned, not raised, an error result: an error
\* description with a null total (with no rows, for fbi_agencies_fetch_one,
\* whose results carry no total).
C1_RetryBound ==
    \A j \in J :
        (retries >= 1 /\ EveryRequestFailed(j)) =>
            /\ nreq[j] <= retries
            /\ st[j] = "done" =>
                /\ nreq[j] = retries
                /\ slept[j] = [i \in 1..(retries - 1) |-> backoff * Pow2(i - 1)]
                /\ fut[j].kind = "return"
                /\ "error" \in DOMAIN fut[j].value
                /\ fut[j].value.error.t = "str"
                /\ fn = "fbi_agencies_fetch_all" => fut[j].value.rows = JList(<<>>)
                /\ fn # "fbi_agencies_fetch_all" => fut[j].value.total_2023 = JNone

\* a call with retries = 3 that ended after three failed requests and sleeps
\* of backoff and 2*backoff
C1_Witness ==
    \E j \in J :
        /\ retries = 3
        /\ EveryRequestFailed(j)
        /\ st[j] = "done"
        /\ nreq[j] = 3
        /\ slept[j] = <<backoff, 2 * backoff>>
        /\ fut[j] = Return(TransportErrorRow(jobs[j]))

\* the fan-out has returned to its caller
Returned == pc \in {"returned", "exported", "main_raised"}

\* C2: when fbi_crime_fetch_all returns, whatever the interleaving and the
\* completion order of the worker threads, its rows are the results of its
\* jobs, one row per job and no other row: some one-to-one pairing of rows and
\* jobs gives every row the result of its job, for that job's state and offense.
C2_OneResultPerJob ==
    (fn = "fbi_crime_fetch_all" /\ Returned) =>
        /\ Len(rows) = Len(jobs)
        /\ \E p \in Perms([j \in J |-> j]) :
              \A i \in J :
                  /\ rows[i] = fut[p[i]].value
                  /\ rows[i].state_abbr = JStr(jobs[p[i]].ent)
                  /\ rows[i].offense = JStr(jobs[p[i]].off)

\* entities [AL, CA] and offenses [V, P]: four jobs, four rows, collected in an
\* order that is not the submission order
C2_Witness ==
    /\ fn = "fbi_crime_fetch_all"
    /\ pc = "returned"
    /\ jobs = Jobs(<<AL, CA>>, <<<<"V">>, <<"P">>>>)
    /\ Len(rows) = 4
    /\ rows[1].state_abbr = JStr(CA)
    /\ \E i \in 1..4 : "error" \in DOMAIN rows[i]
    /\ \E i \in 1..4 : "error" \notin DOMAIN rows[i]

\* C3: a failed job never aborts its siblings: no per-job failure leaves
\* fbi_crime_fetch_all or agency_crime_fetch_all_from_df as an exception.
C3_FailedJobNeverAborts ==
    fn \in {"fbi_crime_fetch_all", "agency_crime_fetch_all_from_df"} =>
        pc # "raised"

\* the crime fetch-one calls, whose results carry a total
CrimeFetch == fn \in {"fbi_crime_fetch_all", "agency_crime_fetch_all_from_df"}

\* the job's call has ended, having parsed a response body
Answered(j) == st[j] = "done" /\ resp[j] # NoResp

\* C4: for every received payload of no recognised shape, fbi_crime_fetch_one
\* and agency_crime_fetch_one return a result with a null total and an error
\* description; they return no numeric total for it and do not raise.
C4_UnrecognisedShapeIsError ==
    \A j \in J :
        (CrimeFetch /\ Answered(j) /\ resp[j] \in ShapePayloads) =>
            /\ fut[j].kind = "return"
            /\ fut[j].value.total_2023 = JNone
            /\ "error" \in DOMAIN fut[j].value
            /\ fut[j].value.error.t = "str"

\* C5: every result a crime fetch-one returns, on the success path and on
\* every failure path, has both the total field and the error field.
C5_BothFieldsPresent ==
    \A j \in J :
        (CrimeFetch /\ retries >= 1 /\ st[j] = "done" /\ fut[j].kind = "return") =>
            {"total_2023", "error"} \subseteq DOMAIN fut[j].value

\* C6: with retries >= 1, whatever the attempts' outcomes, a call of a crime
\* fetch-one that returns returns a result (never None) with exactly one of a
\* non-null total and a non-null error: a total comes with no error, an error
\* with a null total.
C6_ExactlyOneOfTotalAndError ==
    \A j \in J :
        (CrimeFetch /\ retries >= 1 /\ st[j] = "done" /\ fut[j].kind = "return") =>
            /\ fut[j].value # JNone
            /\ "total_2023" \in DOMAIN fut[j].value
            /\ (fut[j].value.total_2023 # JNone) # (Col(fut[j].value, "error") # JNone)

\* both kinds of result have been returned: after failed attempts, a total
\* from the response of the last attempt, and an error row from a failed last
\* attempt
C6_Witness ==
    \E j \in J :
        /\ CrimeFetch
        /\ retries = 3
        /\ st[j] = "done"
        /\ nreq[j] = 3
        /\ fut[j].kind = "return"
        /\ fut[j].value.total_2023.t = "int"
        /\ "error" \notin DOMAIN fut[j].value

\* the period map of a response that carries one series, and its entries
OneSeries(j) == resp[j] \in SumPayloads

PeriodItems(j) ==
    Get(Get(Get(resp[j], <<"offenses">>, JNone), <<"actuals">>, JNone),
        Alabama, JNone).items

\* the period key names the target year: suffix "-2023" or prefix "2023-"
InTargetYear(k) ==
    EndsWith(k, <<"-", "2023">>) \/ StartsWith(k, <<"2023", "-">>)

IntegerValued(items) == \A i \in 1..Len(items) : items[i].v.t = "int"

\* the sum of the integer values of the entries of the target year
RECURSIVE SumOfTargetYear(_)
SumOfTargetYear(items) ==
    IF items = <<>> THEN 0
    ELSE (IF InTargetYear(Head(items).k) THEN Head(items).v.n ELSE 0)
         + SumOfTargetYear(Tail(items))

\* C7: for every period map of the selected series (here with integer
\* values), the total of a successful result is the sum of the values of
\* exactly the entries whose period key matches 2023 by suffix "-2023" or by
\* prefix "2023-", entries of other periods adding nothing, and the total is a
\* non-negative integer.
C7_TotalIsSumOfTargetYear ==
    \A j \in J :
        (CrimeFetch /\ Answered(j) /\ OneSeries(j) /\ IntegerValued(PeriodItems(j))) =>
            /\ fut[j].kind = "return"
            /\ fut[j].value.total_2023.t = "int"
            /\ fut[j].value.total_2023.n = SumOfTargetYear(PeriodItems(j))
            /\ fut[j].value.total_2023.n >= 0

\* the series of a response that carries an actuals map of distinct series
ManySeries(j) == resp[j] \in KeyPayloads

ActualsKeys(j) ==
    Keys(Get(Get(resp[j], <<"offenses">>, JNone), <<"actuals">>, JNone))

IsClearance(k) == \E i \in 1..Len(k) : k[i] \in {"clearance", "Clearance", "CLEARANCE"}

\* the first key of keys without a clearance marker (there is one)
FirstNonClearance(keys) ==
    keys[CHOOSE i \in 1..Len(keys) :
            ~IsClearance(keys[i]) /\ \A m \in 1..(i - 1) : IsClearance(keys[m])]

\* the key the stated policy selects: the requested identifier if present, else
\* the first key without a clearance marker, else the first key
PolicyKey(id, keys) ==
    IF \E i \in 1..Len(keys) : keys[i] = id THEN id
    ELSE IF \E i \in 1..Len(keys) : ~IsClearance(keys[i])
    THEN FirstNonClearance(keys)
    ELSE keys[1]

\* the result is the total of the series under key k
TotalOfSeries(j, k) ==
    /\ fut[j].kind = "return"
    /\ fut[j].value.total_2023 = JInt(SeriesCount(k))

\* the key fbi_crime_fetch_one sums: it names neither the national series nor
\* a "Clearances" series, in that spelling
IsStateSeries(k) ==
    /\ \A i \in 1..(Len(k) - 2) : <<k[i], k[i + 1], k[i + 2]>> # <<"United", " ", "States">>
    /\ \A i \in 1..(Len(k) - 1) : <<k[i], k[i + 1]>> # <<"Clearance", "s">>

\* the first key of keys that is a state series (there is one)
FirstStateSeries(keys) ==
    keys[CHOOSE i \in 1..Len(keys) :
            IsStateSeries(keys[i]) /\ \A m \in 1..(i - 1) : ~IsStateSeries(keys[m])]

\* C8 as stated: for every non-empty actuals map, both crime fetch-one calls
\* sum the series the policy selects.
C8_PolicyInBoth ==
    \A j \in J :
        (CrimeFetch /\ Answered(j) /\ ManySeries(j) /\ ActualsKeys(j) # <<>>) =>
            TotalOfSeries(j, PolicyKey(jobs[j].ent, ActualsKeys(j)))

\* C8, amended: for every non-empty actuals map, agency_crime_fetch_one sums
\* the series under the requested identifier if that key is present, else
\* under the first key without a clearance marker (in any letter case), else
\* under the first key; fbi_crime_fetch_one sums the series under the first
\* key that contains neither "United States" nor "Clearances" and, when there
\* is no such key, returns an error result with a null total.
C8_KeySelection ==
    \A j \in J :
        (Answered(j) /\ ManySeries(j) /\ ActualsKeys(j) # <<>>) =>
            /\ fn = "agency_crime_fetch_all_from_df" =>
                  TotalOfSeries(j, PolicyKey(jobs[j].ent, ActualsKeys(j)))
            /\ fn = "fbi_crime_fetch_all" =>
                  IF \E i \in 1..Len(ActualsKeys(j)) : IsStateSeries(ActualsKeys(j)[i])
                  THEN TotalOfSeries(j, FirstStateSeries(ActualsKeys(j)))
                  ELSE /\ fut[j].kind = "return"
                       /\ fut[j].value.total_2023 = JNone
                       /\ fut[j].value.error = JStr(<<"No state key found">>)

\* agency_crime_fetch_one has passed over a clearance series that came first
\* and summed the series after it
C8_Witness ==
    \E j \in J :
        /\ fn = "agency_crime_fetch_all_from_df"
        /\ Answered(j)
        /\ ManySeries(j)
        /\ Len(ActualsKeys(j)) = 2
        /\ IsClearance(ActualsKeys(j)[1])
        /\ ~IsClearance(ActualsKeys(j)[2])
        /\ ActualsKeys(j)[2] # jobs[j].ent
        /\ TotalOfSeries(j, ActualsKeys(j)[2])

\* C9: in every state of a fan-out run the jobs in flight (started and not yet
\* returned, those asleep in their backoff included) are no more than the
\* pool's max_workers, however many jobs there are.
C9_InFlightBounded == Cardinality(InFlight) <= max_workers

\* the pool is full, one of its threads asleep in its backoff, and a job waits
C9_Witness ==
    /\ Cardinality(InFlight) = max_workers
    /\ \E j \in J : st[j] = "sleeping"
    /\ \E j \in J : st[j] = "pending"
    /\ Len(jobs) > max_workers

\* the crime row has a socioeconomic row to join with
HasAcsRow(c) ==
    /\ Col(c, "state_name") # JNone
    /\ \E i \in 1..Len(acs_raw) : Cell(acs_raw[i], "NAME") = Col(c, "state_name")

\* the output row comes from crime row c, which the join kept whole
FromCrimeRow(written, c) ==
    /\ written.state_abbr = Col(c, "state_abbr")
    /\ written.state_name = Col(c, "state_name")
    /\ written.offense = Col(c, "offense")
    /\ written.total_crime = Col(c, "total_2023")
    /\ ~HasAcsRow(c) =>
          /\ written.total_population = JNone
          /\ written.poverty_rate_pct = JNone
          /\ written.crime_rate_per_100k = JNone

\* C10: for every crime row set and every non-empty socioeconomic row set, the
\* table main writes has exactly as many rows as there are crime rows: each
\* crime row appears in it exactly once, and a crime row with no matching
\* socioeconomic row (an error row with a null state_name included) is kept
\* with null population, poverty and rate.
C10_LeftJoinKeepsRowCount ==
    (pc = "exported" /\ acs_raw # <<>>) =>
        /\ Len(combined_data) = Len(rows)
        /\ \E p \in Perms([i \in 1..Len(rows) |-> i]) :
              \A i \in 1..Len(rows) : FromCrimeRow(combined_data[i], rows[p[i]])

\* the population of an output row is present and positive
HasPopulation(row) == row.total_population.t = "float" /\ row.total_population.h > 0

\* rate is total / population * 100000, as an exact fraction
IsRateOf(rate, total, population) ==
    /\ rate.t = "ratio"
    /\ rate.num * population.h = 2 * total.n * 100000 * rate.den

\* C11: in every row of the exported table the rate per 100k is
\* total / population * 100000 when the population is present and positive,
\* and null when the population is 0 or null: nothing is divided by zero or
\* by null.
C11_RateGuarded ==
    pc = "exported" =>
        \A i \in 1..Len(combined_data) :
            LET row == combined_data[i] IN
            IF HasPopulation(row) /\ row.total_crime # JNone
            THEN IsRateOf(row.crime_rate_per_100k, row.total_crime, row.total_population)
            ELSE row.crime_rate_per_100k = JNone

\* C12: the label of every exported row is a total function of its offense
\* code: "Violent Crime" for "V", "Property Crime" for "P", "Other" for every
\* other code; no row is without a label.
C12_LabelIsTotal ==
    pc = "exported" =>
        \A i \in 1..Len(combined_data) :
            LET row == combined_data[i] IN
            /\ row.offense = JStr(<<"V">>) => row.offense_label = <<"Violent", " ", "Crime">>
            /\ row.offense = JStr(<<"P">>) => row.offense_label = <<"Property", " ", "Crime">>
            /\ row.offense \notin {JStr(<<"V">>), JStr(<<"P">>)} =>
                  row.offense_label = <<"Other">>

\* an exported table with a row of each known code's label beside a row of an
\* unknown code labelled "Other"
C12_Witness ==
    /\ pc = "exported"
    /\ \E i \in 1..Len(combined_data) :
          /\ combined_data[i].offense = JStr(<<"X">>)
          /\ combined_data[i].offense_label = <<"Other">>
    /\ \E i \in 1..Len(combined_data) :
          /\ combined_data[i].offense = JStr(<<"V">>)
          /\ combined_data[i].offense_label = <<"Violent", " ", "Crime">>

\* the job's call returned a result that carries an error
Failed(j) ==
    /\ st[j] = "done"
    /\ fut[j].kind = "return"
    /\ fut[j].value # JNone
    /\ Truthy(Col(fut[j].value, "error"))

\* the returned rows hold a row of job j's own that carries the error field
HasErrorRow(j) ==
    \E i \in 1..Len(rows) :
        /\ "error" \in DOMAIN rows[i]
        /\ IF fn = "fbi_agencies_fetch_all"
           THEN rows[i].state_abbr = JStr(jobs[j].ent)
           ELSE rows[i] = fut[j].value

\* a printed line reports job j's failure
FailureLogged(j) ==
    \E k \in 1..Len(log) : \E i \in 2..Len(log[k]) : log[k][i] = jobs[j].ent

\* C13: when a fan-out (fbi_crime_fetch_all, agency_crime_fetch_all_from_df,
\* fbi_agencies_fetch_all) returns, every job that ended in failure has its
\* own row with the error field among the returned rows, and its failure has
\* been logged.
C13_FailuresKeptAndLogged ==
    pc = "returned" => \A j \in J : Failed(j) => HasErrorRow(j) /\ FailureLogged(j)

\* the crime rows that carry an error
ErrorRows == {i \in 1..Len(rows) : "error" \in DOMAIN rows[i]}

\* the exported table holds crime row c as an error row: error populated,
\* total null
ExportedAsError(c) ==
    \E k \in 1..Len(combined_data) :
        /\ combined_data[k].state_abbr = c.state_abbr
        /\ combined_data[k].offense = c.offense
        /\ combined_data[k].total_crime = JNone
        /\ "error" \in DOMAIN combined_data[k]
        /\ combined_data[k].error = c.error

\* a printed line other than the row count reports the number of error rows
ErrorCountReported ==
    \E k \in 1..Len(log) :
        /\ log[k][1] # "Rows in combined_data:"
        /\ log[k][Len(log[k])] = Cardinality(ErrorRows)

\* C14: in every run of main in which a job failed, the exported table holds
\* each error row with its error field populated and its total null, and a
\* count of the errors is reported at completion.
C14_ErrorsExportedAndCounted ==
    (pc = "exported" /\ ErrorRows # {}) =>
        /\ \A i \in ErrorRows : ExportedAsError(rows[i])
        /\ ErrorCountReported

\* no HTTP request has been made to the crime API or to the census API
NoRequestMade ==
    /\ \A j \in J : nreq[j] = 0 /\ st[j] = "pending" /\ resp[j] = NoResp
    /\ acs_raw = <<>>
    /\ pc \notin {"exported", "main_raised"}

\* C15: when the API key is absent (unset or empty) the process ends at
\* start-up with a descriptive message and a non-zero exit status, and no HTTP
\* request to either API is made in that run: the check comes before every
\* network action.
C15_NoKeyNoRequest ==
    (FBI_API_KEY = JNone \/ FBI_API_KEY = JStr(<<>>)) =>
        /\ pc \in {"startup", "exited"}
        /\ NoRequestMade
        /\ pc = "exited" => /\ exit_code.t = "int"
                            /\ exit_code.n # 0
                            /\ log = <<KEY_MESSAGE>>
        /\ pc = "startup" => ENABLED StartUp

\* the process has ended at start-up on an empty key, with jobs configured
C15_Witness ==
    /\ FBI_API_KEY = JStr(<<>>)
    /\ pc = "exited"
    /\ exit_code = JInt(1)
    /\ Len(jobs) > 1
    /\ NoRequestMade

\* the actuals map of a response of the new shape
ActualsOf(data) == Get(Get(data, <<"offenses">>, JNone), <<"actuals">>, JNone)

\* the response with the keys of its actuals map in another order
ActualsPermuted(data) == {NewShape(JDict(q)) : q \in Perms(ActualsOf(data).items)}

\* the one-series response with the entries of its period map in another order
PeriodsPermuted(data) ==
    {NewShape(JDict(<<Item(Alabama, JDict(q))>>)) :
        q \in Perms(Get(ActualsOf(data), Alabama, JNone).items)}

\* the extraction gives, for every body of D, what it gave for job j's response
SameExtraction(j, D) == \A data \in D : Parse(jobs[j], data) = fut[j]

SelectionOrderFree(j) ==
    LET keys == ActualsKeys(j)
        n == Len(keys)
        plain == {i \in 1..n : ~IsClearance(keys[i])}
        states == {i \in 1..n : IsStateSeries(keys[i])} IN
    IF fn = "agency_crime_fetch_all_from_df"
    THEN \/ \E i \in 1..n : keys[i] = jobs[j].ent
         \/ Cardinality(plain) = 1
         \/ plain = {} /\ n <= 1
    ELSE Cardinality(states) <= 1

C17_BareListIsSummed ==
    \A j \in J :
        (fn = "agency_crime_fetch_all_from_df" /\ Answered(j) /\ resp[j] \in LegacyLists) =>
            /\ fut[j].kind = "return"
            /\ fut[j].value.total_2023.t = "int"
            /\ fut[j] = agency_crime_parse(jobs[j].ent, jobs[j].off,
                                           Obj1("results", resp[j]))

\* nothing of job j's call can happen any more: no request, no sleep
CallOver(j) ==
    ~ENABLED (Start(j) \/ AttemptFails(j) \/ Wake(j) \/ AttemptResponds(j))

\* C18: a successful attempt ends the retry loop: when the k-th attempt
\* (1 <= k <= retries) of a fetch-one call is the first to get a response, the
\* call has made exactly k requests and slept exactly k-1 times, once after
\* each failed attempt (for backoff*2^i after the i-th, from 0), and makes no
\* request and no sleep afterwards.
C18_SuccessShortCircuits ==
    \A j \in J :
        Answered(j) =>
            /\ nreq[j] = attempt[j] + 1
            /\ nreq[j] \in 1..retries
            /\ slept[j] = [i \in 1..(nreq[j] - 1) |-> backoff * Pow2(i - 1)]
            /\ CallOver(j)

\* a call that got its response on the second of three attempts
C18_Witness ==
    \E j \in J :
        /\ retries = 3
        /\ Answered(j)
        /\ nreq[j] = 2
        /\ slept[j] = <<backoff>>
        /\ fut[j].kind = "return"
        /\ CallOver(j)

\* C19: there is no cancellation: once the jobs are dispatched, and given
\* that every attempt returns or times out and the threads are scheduled
\* fairly, the fan-out eventually returns with every job completed; no job is
\* left unstarted or abandoned because another ended first.
C19_FanOutEventuallyReturns ==
    (CrimeFetch /\ pc = "collecting") ~> (Returned /\ \A j \in J : st[j] = "done")

\* the part that is about the jobs alone: every dispatched job runs to its
\* own end, whatever becomes of the others and of the fan-out
EveryJobCompletes ==
    (CrimeFetch /\ pc = "collecting") ~> (\A j \in J : st[j] = "done")

\* the per-job state of every job but j is left as it is
OnlyJob(j) ==
    \A i \in J \ {j} :
        /\ st'[i] = st[i]
        /\ attempt'[i] = attempt[i]
        /\ nreq'[i] = nreq[i]
        /\ slept'[i] = slept[i]
        /\ resp'[i] = resp[i]
        /\ fut'[i] = fut[i]

\* a step of a worker thread: it touches the state of one job's call and
\* nothing any other thread reads or writes, the rows list least of all
WorkerStepIsLocal ==
    (call_vars' # call_vars) =>
        /\ \E j \in J : OnlyJob(j)
        /\ rows' = rows
        /\ yielded' = yielded
        /\ log' = log

\* an insertion into rows: made by the collecting loop, while no worker
\* moves, of the result of one completed job handed over just then
InsertionIsCollectors ==
    (rows' # rows) =>
        /\ pc = "collecting"
        /\ call_vars' = call_vars
        /\ \E j \in J \ yielded :
              /\ st[j] = "done"
              /\ fut[j].kind = "return"
              /\ yielded' = yielded \cup {j}
              /\ rows' = IF fn = "fbi_agencies_fetch_all"
                         THEN rows \o fut[j].value.rows.xs
                         ELSE Append(rows, fut[j].value)

\* the rows inserted so far are those of the results handed over so far
NothingLostOrDuplicated ==
    LET got == {j \in yielded : fut[j].kind = "return"} IN
    IF fn = "fbi_agencies_fetch_all"
    THEN \A j \in got : \A k \in 1..Len(fut[j].value.rows.xs) :
            \E i \in 1..Len(rows) : rows[i] = fut[j].value.rows.xs[k]
    ELSE /\ Len(rows) = Cardinality(got)
         /\ \A j \in got : \E i \in 1..Len(rows) : rows[i] = fut[j].value

\* C20: the result collection is free of data races: a worker thread changes
\* only the state of its own job and never the rows list; every insertion
\* into rows is made by the collecting thread, one completed job at a time;
\* no result is lost or duplicated.
C20_RaceFree ==
    /\ []NothingLostOrDuplicated
    /\ [][WorkerStepIsLocal /\ InsertionIsCollectors]_vars

\* two workers in flight while the collecting thread has inserted a result
C20_Witness ==
    /\ pc = "collecting"
    /\ Len(rows) = 1
    /\ Cardinality(InFlight) = 2
    /\ \E j \in J : st[j] = "done" /\ j \notin yielded

\* the joined table main sorts: the join of the collected rows with the census
\* rows, in the order the join leaves it
JoinedInput == LeftJoin(rows, fetch_acs_state_poverty(acs_raw).value)

\* the table is in ascending order of the lower-cased label
SortedByLabel(table) ==
    \A i, k \in 1..Len(table) :
        i < k => LabelRank(table[i].offense_label) <= LabelRank(table[k].offense_label)

\* the one order a stable sort by label gives a table
StableSorted(table) == Ranked(table, 1) \o Ranked(table, 2) \o Ranked(table, 3)

\* C21: the exported table is in ascending order of the lower-cased label
\* ("Other", then "Property Crime", then "Violent Crime"; no label is null),
\* and rows of equal label keep the order they had in the joined input
C21_StableSortByLabel ==
    pc = "exported" =>
        /\ SortedByLabel(combined_data)
        /\ combined_data = StableSorted(JoinedInput)

\* the rows fbi_crime_fetch_all returns when the jobs complete in the order
\* they were submitted
RowsInJobOrder == [j \in J |-> fut[j].value]

\* the table main writes in the run that has the same responses, completes
\* the jobs in submission order and keeps equal labels in input order
ReferenceExport ==
    StableSorted(LeftJoin(RowsInJobOrder, fetch_acs_state_poverty(acs_raw).value))

\* C22: for the same responses, main writes the same row sequence whatever the
\* order in which the jobs of the fan-out completed: the written table is the
\* one of the run that completed them in submission order.  It is stated of
\* the runs whose sort kept rows of equal label in input order, where a
\* difference is the work of the completion order alone.
C22_ExportIgnoresCompletionOrder ==
    (pc = "exported" /\ combined_data = StableSorted(JoinedInput)) =>
        combined_data = ReferenceExport

\* the keys of the actuals map of the response job j parsed; none when it
\* parsed no response or the response carries no such map
ResponseSeriesKeys(j) ==
    IF resp[j] = NoResp \/ resp[j].t # "dict" THEN {}
    ELSE LET offenses == Get(resp[j], <<"offenses">>, JNone) IN
         IF offenses.t # "dict" THEN {}
         ELSE LET actuals == Get(offenses, <<"actuals">>, JNone) IN
              IF actuals.t # "dict" THEN {}
              ELSE {actuals.items[i].k : i \in 1..Len(actuals.items)}

\* C23: in every result of fbi_crime_fetch_one, state_name is null or a key
\* of the actuals map of the response the call parsed, one that names neither
\* the national series nor a "Clearances" series; a call that parsed no
\* response, or whose response has no such key, has no name to give (the
\* requested abbreviation is never used in its place), and state_name is null
\* in every error result.
C23_NameComesFromResponse ==
    \A j \in J :
        (fn = "fbi_crime_fetch_all" /\ retries >= 1 /\ st[j] = "done"
            /\ fut[j].kind = "return") =>
            LET result == fut[j].value IN
            /\ "state_name" \in DOMAIN result
            /\ \/ result.state_name = JNone
               \/ /\ result.state_name.t = "str"
                  /\ result.state_name.s \in ResponseSeriesKeys(j)
                  /\ IsStateSeries(result.state_name.s)
            /\ Col(result, "error") # JNone => result.state_name = JNone

\* a call for "AL" has returned the name "Alabama", which its response lists
\* after the national series, and the response has no key "AL"
C23_Witness ==
    \E j \in J :
        /\ fn = "fbi_crime_fetch_all"
        /\ jobs[j].ent = AL
        /\ st[j] = "done"
        /\ resp[j] = NewShape(JDict(<<Series(<<"United", " ", "States">>), Series(Alabama)>>))
        /\ fut[j].kind = "return"
        /\ fut[j].value.state_name = JStr(Alabama)

\* the distinct ORI values of the agency table that are neither null nor blank
ListedOris ==
    IF "ori" \notin agencies_2023_df.columns THEN {}
    ELSE {agencies_2023_df.rows[i].ori.s :
            i \in {k \in 1..Len(agencies_2023_df.rows) :
                     /\ agencies_2023_df.rows[k].ori.t = "str"
                     /\ \E n \in 1..Len(agencies_2023_df.rows[k].ori.s) :
                           agencies_2023_df.rows[k].ori.s[n] # " "}}

\* the jobs dispatched for the pair (o, off)
JobsFor(o, off) == {j \in J : jobs[j] = [ent |-> o, off |-> off]}

\* the rows of the returned table that are the result of job j
RowsOf(j) ==
    {i \in 1..Len(out) :
        out[i].ori = JStr(jobs[j].ent) /\ out[i].offense = JStr(jobs[j].off)}

\* C24: agency_crime_fetch_all_from_df dispatches exactly one job for every
\* pair of a distinct, non-null, non-blank ORI of the agency table and a given
\* offense, and no other job; the table it returns has exactly one row for
\* every dispatched job, the metadata join having dropped and multiplied none.
C24_OneJobOneRowPerPair ==
    fn = "agency_crime_fetch_all_from_df" =>
        /\ \A o \in ListedOris : \A k \in 1..Len(offenses_arg) :
              Cardinality(JobsFor(o, offenses_arg[k])) = 1
        /\ \A j \in J :
              /\ jobs[j].ent \in ListedOris
              /\ \E k \in 1..Len(offenses_arg) : jobs[j].off = offenses_arg[k]
        /\ pc = "returned" =>
              /\ Len(out) = Len(jobs)
              /\ \A j \in J : Cardinality(RowsOf(j)) = 1

\* the agency table lists one ORI twice, with differing metadata; two
\* offenses were given, and the function has returned a table of two rows,
\* both with the metadata of one of the listings
C24_Witness ==
    /\ fn = "agency_crime_fetch_all_from_df"
    /\ Len(agencies_2023_df.rows) = 2
    /\ agencies_2023_df.rows[1].ori = JStr(ORI1)
    /\ agencies_2023_df.rows[2].ori = JStr(ORI1)
    /\ agencies_2023_df.rows[1].county # agencies_2023_df.rows[2].county
    /\ Len(offenses_arg) = 2
    /\ pc = "returned"
    /\ Len(out) = 2
    /\ out[1].county = out[2].county
    /\ out[1].county # JNone

====
